---- MODULE Spec2Model ----
(***************************************************************************)
(* Visit counter service: write batching buffer, TTL read cache and the    *)
(* flush of buffered increments to the Redis store.                        *)
(*                                                                         *)
(* The process runs one asyncio event loop.  A coroutine gives the loop    *)
(* up only where an await really suspends: asyncio.sleep in                *)
(* _periodic_flush and "await self.flush_task" in cleanup.  The awaits on  *)
(* redis_manager.increment / redis_manager.get wrap the blocking client    *)
(* redis.Redis (redis_manager.py:1,24,54,71): they never suspend, so       *)
(* flush_buffer and get_visit_count run to their end without another       *)
(* coroutine in between.  That is the specification Spec (blocking = TRUE).*)
(* SpecYield (blocking = FALSE) is the conservative reading in which every *)
(* await on the store is a suspension point; every behaviour of Spec is a  *)
(* behaviour of SpecYield.                                                 *)
(*                                                                         *)
(* The clock `now` is wall-clock time (time.time()) in seconds.  It is     *)
(* observed on a grid of ClockStep seconds, the largest step of which both *)
(* periods of the program (cache_ttl, flush_interval) are whole multiples, *)
(* and advances by Tick at any moment, also while a blocking store call    *)
(* runs.                                                                   *)
(*                                                                         *)
(* The consistent hash ring (ConsistentHash) is modelled on its own, in    *)
(* SpecRing: the ring is built by the constructor and is not changed by    *)
(* the service afterwards, so every key of the service stays on one shard  *)
(* and `redis` stands for the shards together.  MD5 is taken as an         *)
(* arbitrary function into 0..MaxHash, chosen at start-up for the virtual  *)
(* node names and per call for the keys looked up.                         *)
(***************************************************************************)
EXTENDS Integers, Sequences, FiniteSets, TLC

\* ---------------------------------------------------------------- bounds
MaxTicks == 7
MaxIncr == 2
MaxInit == 1
MaxHash == 3
MaxRing == 6
virtual_nodes == 2

\* ------------------------------------------------------ program constants
cache_ttl == 5
flush_interval == 30
ttl_seconds == 5

Keys == {"A", "B"}

\* Granularity of the clock and the last instant modelled.
ClockStep == cache_ttl
MaxTime == MaxTicks * ClockStep

\* The two instances of VisitCounterService the process constructs:
\* counter_service (endpoints/counter.py:6), which the request handlers use,
\* and the singleton visit_counter_service (visit_counter.py:153), which
\* main.py's shutdown handler cleans up.
HandlerService == "counter_service"
SingletonService == "visit_counter_service"
Services == {HandlerService, SingletonService}

\* Coroutines: each service's background flush task, the request handler
\* (get_visits / test_cache) and the shutdown handler.  t[2] is the service
\* instance the coroutine operates on.
FlushTask(s) == <<"flush_task", s>>
RequestTask == <<"request", HandlerService>>
ShutdownTask == <<"shutdown", SingletonService>>
Tasks == {FlushTask(s) : s \in Services} \cup {RequestTask, ShutdownTask}

\* ------------------------------------------------ Python dict (ordered)
\* A dict is the sequence of its <<key, value>> items in insertion order.
DictHas(d, k) == \E i \in 1..Len(d) : d[i][1] = k
DictGet(d, k, default) ==
    IF DictHas(d, k) THEN d[CHOOSE i \in 1..Len(d) : d[i][1] = k][2] ELSE default
DictSet(d, k, v) ==
    IF DictHas(d, k)
    THEN [i \in 1..Len(d) |-> IF d[i][1] = k THEN <<k, v>> ELSE d[i]]
    ELSE Append(d, <<k, v>>)
\* defaultdict(int): d[k] += n creates the item when it is missing.
DictAdd(d, k, n) == DictSet(d, k, DictGet(d, k, 0) + n)

VARIABLES
    now,             \* time.time()
    redis,           \* the store: visit_counter:<page_id> -> value
    cache,           \* self.cache per service: page_id -> <<>> | <<count, expiration>>
    write_buffer,    \* self.write_buffer per service (ordered dict)
    last_flush_time, \* self.last_flush_time per service
    pc,              \* position of each coroutine
    wake,            \* per service: when the flush task's asyncio.sleep ends
    fl,              \* per coroutine: the locals of its flush_buffer call
    req,             \* locals of the request handler
    ret,             \* what the last step returned from get_visit_count
    flush_ret,       \* the flush_buffer call the last step returned from
    phase,           \* "running" | "shutting_down" | "exited"
    blocking,        \* TRUE: store calls block the loop (the code); FALSE: they suspend
    accepted,        \* history: increments accepted per page_id by counter_service
    redis0,          \* history: the store's values at start-up
    flushed,         \* history: some flush of counter_service has taken a snapshot
    late,            \* history: page_ids incremented while a flush of
                     \* counter_service was between its snapshot and its end
    flush_hist,      \* history per service: last, the outcome of the last
                     \* flush_buffer call ("none" | "ok" | "failed"), and inc,
                     \* whether an increment has been accepted since it
    svc_cache,       \* cache_service.cache: key -> <<>> | <<value, expiration>>
    svc_out,         \* the last CacheService.get: what it found and returned
    vnode_hash,      \* self._hash(f"{node}:{i}") for every node and i
    hash_ring,       \* self.hash_ring: hash value -> node name | NoNode (absent)
    sorted_keys,     \* self.sorted_keys
    ring_out,        \* the last ConsistentHash call: its arguments and outcome
    last_read,       \* history: per page_id, the visits that the last
                     \* get_visit_count of counter_service returned (None: none yet)
    recording        \* whether the history last_read is kept

vars == <<now, redis, cache, write_buffer, last_flush_time, pc, wake, fl, req,
          ret, flush_ret, phase, blocking, accepted, redis0, flushed, late,
          flush_hist, svc_cache, svc_out, vnode_hash, hash_ring, sorted_keys,
          ring_out, last_read, recording>>

svcvars == <<svc_cache, svc_out>>
ringvars == <<vnode_hash, hash_ring, sorted_keys, ring_out>>

\* The shard names of the configuration and the values of _hash.
Nodes == {"n1", "n2"}
HashSpace == 0..MaxHash
VirtualNodes == Nodes \X (0..(virtual_nodes - 1))
\* No entry of the dict hash_ring at a hash value.
NoNode == "none"
\* op: "none" | "add_node" | "remove_node" | "get_node"; node: the argument of
\* add_node / remove_node; present: the node had an entry in hash_ring when
\* the call began; hash: _hash(key) of get_node; result: the node returned,
\* or "Exception" (the ring is empty) or "KeyError"; before: for
\* remove_node, what get_node gave for every hash value before the call.
NoRingOut == [op |-> "none", node |-> NoNode, present |-> FALSE, hash |-> 0,
              result |-> NoNode, before |-> <<>>]

\* None of Python, as a cached or returned value.
None == -1

\* kind: "none" | "value" (a VisitCount) | "error" (the exception of a failed
\* store read, HTTP 500); call: 1 or 2, the get_visit_count call of the request.
\* first_visits, first_via: first_result of test_cache, on its second call.
\* since_first: on the second call, the time from the first call's
\* current_time to this call's.  fresh: no flush of counter_service had taken
\* a snapshot when the call began.  due: the call found
\* current_time - last_flush_time > flush_interval; catch_up: "none", or how
\* the flush_buffer call made by this get_visit_count call returned, "empty"
\* (at once, on an empty buffer) or "flushed" (after its store adds);
\* store_error: the store read of the call raised; prev_read: last_read of the page when the
\* call returned.
NoRet == [kind |-> "none", page_id |-> "A", visits |-> 0, served_via |-> "none",
          call |-> 0, first_visits |-> 0, first_via |-> "none", since_first |-> 0,
          fresh |-> FALSE, due |-> FALSE, catch_up |-> "none",
          store_error |-> FALSE, prev_read |-> None]
\* kind: "none" | "done"; task: the caller; adds: the store adds the call
\* issued; failed: one of them raised; prev: flush_hist when it was called;
\* snapshot: the buffer it copied; issued: its store adds in order, each
\* <<page_id, amount, reply>>.
NoHist == [last |-> "none", inc |-> FALSE]
NoFlushRet == [kind |-> "none", task |-> <<>>, adds |-> 0, failed |-> FALSE,
               prev |-> NoHist, snapshot |-> <<>>, issued |-> <<>>]
\* stage: "none" (not in flush_buffer), "call" (at the await of the store add
\* for the head of buffer_copy), "ret" (the store has replied).  adds counts the
\* store adds this call has issued, failed whether one of them raised, prev is
\* flush_hist at the call.  buffer_copy holds the items still to be handled,
\* snapshot the whole copy, issued the store adds made so far.
NoFlush == [stage |-> "none", buffer_copy |-> <<>>, reply |-> "ok", adds |-> 0,
            failed |-> FALSE, prev |-> [last |-> "none", inc |-> FALSE],
            snapshot |-> <<>>, issued |-> <<>>]
\* first: first_result of test_cache and first_time the current_time of that
\* call; fresh: no flush of counter_service had taken a snapshot when the
\* current get_visit_count call began.  due, catch_up, store_error: as in
\* NoRet, for the call in progress.
NoReq == [endpoint |-> "none", page_id |-> "A", current_time |-> 0,
          redis_count |-> 0, call |-> 0, first |-> NoRet, first_time |-> 0,
          fresh |-> FALSE, due |-> FALSE, catch_up |-> "none",
          store_error |-> FALSE]

\* kind: "none" | "get"; at: time.time() of the lookup; entry: the entry it
\* found (<<>>: none); value, hit: the tuple returned; removed: the key is
\* not in the cache when the lookup returns.
NoOut == [kind |-> "none", key |-> "A", at |-> 0, entry |-> <<>>, value |-> None,
          hit |-> FALSE, removed |-> FALSE]

\* A client whose calls suspend the calling coroutine.
AsyncClient == FALSE
\* The redis client in use is the blocking one (import redis; redis.Redis).
SyncClient == TRUE

\* The state after start-up: both service instances constructed at time 0,
\* their flush tasks asleep, the store holding the values in r.
InitWith(r) ==
    /\ now = 0
    /\ redis = r
    /\ redis0 = redis
    /\ cache = [s \in Services |-> [k \in Keys |-> <<>>]]
    /\ write_buffer = [s \in Services |-> <<>>]
    /\ last_flush_time = [s \in Services |-> 0]
    /\ pc = [t \in Tasks |-> IF t[1] = "flush_task" THEN "sleep" ELSE "idle"]
    /\ wake = [s \in Services |-> now + flush_interval]
    /\ fl = [t \in Tasks |-> NoFlush]
    /\ req = NoReq
    /\ ret = NoRet
    /\ flush_ret = NoFlushRet
    /\ phase = "running"
    /\ accepted = [k \in Keys |-> 0]
    /\ flushed = FALSE
    /\ late = {}
    /\ flush_hist = [s \in Services |-> NoHist]
    /\ svc_cache = [k \in Keys |-> <<>>]
    /\ svc_out = NoOut
    /\ hash_ring = [h \in HashSpace |-> NoNode]
    /\ sorted_keys = <<>>
    /\ ring_out = NoRingOut
    /\ last_read = [k \in Keys |-> None]

\* The store holds, for each key, nothing or MaxInit earlier visits.
Init ==
    /\ \E r \in [Keys -> {0, MaxInit}] : InitWith(r)
    /\ blocking = SyncClient
    /\ vnode_hash = [v \in VirtualNodes |-> 0]
    /\ recording = FALSE

\* The same start-up, the values returned by the reads being recorded.
InitReads ==
    /\ \E r \in [Keys -> {0, MaxInit}] : InitWith(r)
    /\ blocking = SyncClient
    /\ vnode_hash = [v \in VirtualNodes |-> 0]
    /\ recording = TRUE

\* Start-up on an empty store, store awaits taken as suspension points.
InitYield ==
    /\ InitWith([k \in Keys |-> 0])
    /\ blocking = FALSE
    /\ vnode_hash = [v \in VirtualNodes |-> 0]
    /\ recording = FALSE

\* ------------------------------------------------------------ event loop
\* A coroutine that is between two awaits that do not suspend.
Busy(t) == pc[t] \in {"flush", "get", "got", "second"}

\* The loop can start or resume a coroutine: no other one holds it.
LoopFree == blocking => \A t \in Tasks : ~Busy(t)

Pending(s, k) == DictGet(write_buffer[s], k, 0)

TotalAccepted == accepted["A"] + accepted["B"]

\* ------------------------------------------------------------- the clock
Tick ==
    /\ phase # "exited"
    /\ now + ClockStep <= MaxTime
    /\ now' = now + ClockStep
    /\ ret' = NoRet
    /\ flush_ret' = NoFlushRet
    /\ UNCHANGED <<redis, cache, write_buffer, last_flush_time, pc, wake, fl, req,
                   phase, blocking, accepted, redis0, flushed, late, flush_hist, svcvars, ringvars,
                   last_read, recording>>

\* ------------------------------------------------------- increment_visit
\* The pending map replaced by the one new count.
BufferIncrementReplace(d, page_id) == <<<<page_id, DictGet(d, page_id, 0) + 1>>>>
\* The pending map after self.write_buffer[page_id] += 1.
BufferIncrement(d, page_id) == DictAdd(d, page_id, 1)

\* The cache entry left in place.
InvalidateOnIncrementSkipped(c, page_id) == c
\* if page_id in self.cache: del self.cache[page_id]   (increment_visit)
InvalidateOnIncrement(c, page_id) == [c EXCEPT ![page_id] = <<>>]

\* POST /visit/{page_id}: record_visit -> counter_service.increment_visit.
IncrementVisit(page_id) ==
    /\ phase = "running"
    /\ LoopFree
    /\ TotalAccepted < MaxIncr
    /\ write_buffer' = [write_buffer EXCEPT
                          ![HandlerService] = BufferIncrement(@, page_id)]
    /\ cache' = [cache EXCEPT
                   ![HandlerService] = InvalidateOnIncrement(@, page_id)]
    /\ accepted' = [accepted EXCEPT ![page_id] = @ + 1]
    /\ late' = IF \E t \in Tasks : t[2] = HandlerService /\ fl[t].stage # "none"
               THEN late \cup {page_id}
               ELSE late
    /\ flush_hist' = [flush_hist EXCEPT ![HandlerService].inc = TRUE]
    /\ ret' = NoRet
    /\ flush_ret' = NoFlushRet
    /\ UNCHANGED <<now, redis, last_flush_time, pc, wake, fl, req, phase,
                   blocking, redis0, flushed, svcvars, ringvars,
                   last_read, recording>>

\* ---------------------------------------------------------- flush_buffer
\* asyncio.sleep(flush_interval) begun at time t ends at t + flush_interval;
\* every end after the last instant modelled is the same end, Never.
Never == MaxTime + ClockStep
\* The flush task gone after its first flush.
SleepForever(t) == Never
SleepUntil(t) == IF t + flush_interval > MaxTime THEN Never ELSE t + flush_interval

\* What the caller of flush_buffer does when the call returns:
\* _periodic_flush loops back to asyncio.sleep(flush_interval),
\* get_visit_count goes on to read the store, cleanup returns and the
\* process exits.
FlushReturn(t) ==
    /\ pc' = [pc EXCEPT ![t] = CASE t[1] = "flush_task" -> "sleep"
                                  [] t[1] = "request" -> "get"
                                  [] OTHER -> "done"]
    /\ wake' = IF t[1] = "flush_task"
               THEN [wake EXCEPT ![t[2]] = SleepUntil(now)]
               ELSE wake
    /\ phase' = IF t[1] = "shutdown" THEN "exited" ELSE phase

\* buffer_copy = dict(self.write_buffer)
BufferCopy(d) == d

\* The buffer left as it is.
BufferClearSkipped(d) == d
\* self.write_buffer.clear()
BufferClear(d) == <<>>

\* The call of flush_buffer by coroutine t, up to its first await: return at
\* once on an empty buffer, else copy the buffer and clear it.
FlushBuffer(t) ==
    LET s == t[2] IN
    IF Len(write_buffer[s]) = 0
    THEN /\ fl' = fl
         /\ flush_ret' = [NoFlushRet EXCEPT !.kind = "done", !.task = t,
                                            !.prev = flush_hist[s]]
         /\ flush_hist' = [flush_hist EXCEPT ![s] = [last |-> "ok", inc |-> FALSE]]
         /\ FlushReturn(t)
         /\ UNCHANGED <<write_buffer, flushed>>
    ELSE /\ fl' = [fl EXCEPT ![t] = [NoFlush EXCEPT
                       !.stage = "call",
                       !.buffer_copy = BufferCopy(write_buffer[s]),
                       !.snapshot = BufferCopy(write_buffer[s]),
                       !.prev = flush_hist[s]]]
         /\ flush_ret' = NoFlushRet
         /\ write_buffer' = [write_buffer EXCEPT ![s] = BufferClear(@)]
         /\ flushed' = (flushed \/ s = HandlerService)
         /\ pc' = [pc EXCEPT ![t] = "flush"]
         /\ UNCHANGED <<wake, phase, flush_hist>>

\* The amount written over the stored value.
StoreAddSet(r, page_id, amount) == [r EXCEPT ![page_id] = amount]
\* redis_client.incrby(key, amount) on the shard of the key.
StoreAdd(r, page_id, amount) == [r EXCEPT ![page_id] = @ + amount]

\* if page_id in self.cache: del self.cache[page_id]   (flush_buffer)
InvalidateOnFlush(c, page_id) == [c EXCEPT ![page_id] = <<>>]

\* The failed count dropped.
BufferRequeueLost(d, page_id, count) == d
\* The failed count written over the live pending count.
BufferRequeueOverwrite(d, page_id, count) == DictSet(d, page_id, count)
\* except-branch of flush_buffer: self.write_buffer[page_id] += count.
BufferRequeue(d, page_id, count) == DictAdd(d, page_id, count)

\* The loop left at the first store add that raises.
FlushRestAbort(reply, rest) == IF reply = "error" THEN <<>> ELSE rest
\* for page_id, count in buffer_copy.items(), the try inside the loop: the
\* loop goes on to the remaining items whatever the store replied.
FlushRest(reply, rest) == rest

\* await redis_manager.increment(redis_key, count) for the next item of the
\* copy: the add is applied, or the store call raises.  An item whose count
\* is not > 0 is passed over.
FlushStore(t) ==
    /\ phase # "exited"
    /\ pc[t] = "flush"
    /\ fl[t].stage = "call"
    /\ LET item == Head(fl[t].buffer_copy) IN
       IF item[2] > 0
       THEN \E reply \in {"ok", "error"} :
              /\ redis' = IF reply = "ok" THEN StoreAdd(redis, item[1], item[2])
                                          ELSE redis
              /\ fl' = [fl EXCEPT ![t].stage = "ret", ![t].reply = reply,
                                  ![t].adds = @ + 1,
                                  ![t].issued = Append(@, <<item[1], item[2], reply>>)]
       ELSE /\ redis' = redis
            /\ fl' = [fl EXCEPT ![t].stage = "ret", ![t].reply = "skip"]
    /\ ret' = NoRet
    /\ flush_ret' = NoFlushRet
    /\ UNCHANGED <<now, cache, write_buffer, last_flush_time, pc, wake, req, phase,
                   blocking, accepted, redis0, flushed, late, flush_hist, svcvars, ringvars,
                   last_read, recording>>

\* The rest of the loop body after the store call: drop the cache entry of a
\* flushed page, or put the count of a failed one back; after the last item
\* set last_flush_time and return.
FlushResume(t) ==
    /\ phase # "exited"
    /\ pc[t] = "flush"
    /\ fl[t].stage = "ret"
    /\ LET s == t[2]
           item == Head(fl[t].buffer_copy)
           rest == FlushRest(fl[t].reply, Tail(fl[t].buffer_copy))
           failed == fl[t].failed \/ fl[t].reply = "error"
       IN
       /\ cache' = IF fl[t].reply = "ok"
                   THEN [cache EXCEPT ![s] = InvalidateOnFlush(@, item[1])]
                   ELSE cache
       /\ write_buffer' = IF fl[t].reply = "error"
                          THEN [write_buffer EXCEPT
                                  ![s] = BufferRequeue(@, item[1], item[2])]
                          ELSE write_buffer
       /\ IF rest = <<>>
          THEN /\ last_flush_time' = [last_flush_time EXCEPT ![s] = now]
               /\ fl' = [fl EXCEPT ![t] = NoFlush]
               /\ flush_ret' = [kind |-> "done", task |-> t, adds |-> fl[t].adds,
                                failed |-> failed, prev |-> fl[t].prev,
                                snapshot |-> fl[t].snapshot,
                                issued |-> fl[t].issued]
               /\ flush_hist' = [flush_hist EXCEPT
                                   ![s] = [last |-> IF failed THEN "failed" ELSE "ok",
                                           inc |-> FALSE]]
               /\ req' = IF t = RequestTask THEN [req EXCEPT !.catch_up = "flushed"]
                         ELSE req
               /\ FlushReturn(t)
          ELSE /\ fl' = [fl EXCEPT ![t].stage = "call", ![t].buffer_copy = rest,
                                   ![t].failed = failed]
               /\ flush_ret' = NoFlushRet
               /\ UNCHANGED <<last_flush_time, flush_hist, pc, wake, phase, req>>
    /\ ret' = NoRet
    /\ UNCHANGED <<now, redis, blocking, accepted, redis0, flushed, late, svcvars, ringvars,
                   last_read, recording>>

\* cleanup has called self.flush_task.cancel() on the task of service s.
CancelRequested(s) == s = SingletonService /\ pc[ShutdownTask] # "idle"

\* _periodic_flush: asyncio.sleep(flush_interval) is over, flush_buffer is
\* called.
PeriodicFlush(s) ==
    /\ phase # "exited"
    /\ pc[FlushTask(s)] = "sleep"
    /\ ~CancelRequested(s)
    /\ now >= wake[s]
    /\ LoopFree
    /\ FlushBuffer(FlushTask(s))
    /\ ret' = NoRet
    /\ UNCHANGED <<now, redis, cache, last_flush_time, req, blocking, accepted,
                   redis0, late, svcvars, ringvars,
                   last_read, recording>>

\* -------------------------------------------------------- get_visit_count
\* if current_time < expiration, for an entry that exists.
CacheValid(entry, current_time) == entry # <<>> /\ current_time < entry[2]

\* No catch-up flush, however old the last flush.
FlushDueNever(current_time, last) == FALSE
\* time_since_flush > self.flush_interval
FlushDue(current_time, last) == current_time - last > flush_interval

\* The store's count alone.
TotalCountStoreOnly(redis_count, pending_count) == redis_count
\* total_count = redis_count + pending_count
TotalCount(redis_count, pending_count) == redis_count + pending_count

\* An entry that expires at once.
CacheEntryNoTtl(total_count, current_time) == <<total_count, current_time>>
\* (total_count, current_time + self.cache_ttl)
CacheEntry(total_count, current_time) == <<total_count, current_time + cache_ttl>>

\* get_visit_count returns r to the handler: get_visits responds; test_cache
\* keeps its first result and calls get_visit_count again.
ReadReturn(r, rq) ==
    /\ recording' = recording
    /\ last_read' = IF recording /\ r.kind = "value"
                    THEN [last_read EXCEPT ![r.page_id] = r.visits]
                    ELSE last_read
    /\ ret' = [r EXCEPT !.first_visits = rq.first.visits,
                        !.first_via = rq.first.served_via,
                        !.since_first = IF rq.call = 2
                                        THEN rq.current_time - rq.first_time
                                        ELSE 0,
                        !.fresh = rq.fresh,
                        !.due = rq.due,
                        !.catch_up = rq.catch_up,
                        !.store_error = rq.store_error,
                        !.prev_read = IF recording THEN last_read[r.page_id]
                                      ELSE None]
    /\ flush_ret' = NoFlushRet
    /\ IF rq.endpoint = "test_cache" /\ rq.call = 1 /\ r.kind = "value"
       THEN /\ req' = [rq EXCEPT !.first = r, !.first_time = rq.current_time,
                                 !.redis_count = 0, !.due = FALSE,
                                 !.catch_up = "none", !.store_error = FALSE]
            /\ pc' = [pc EXCEPT ![RequestTask] = "second"]
       ELSE /\ req' = NoReq
            /\ pc' = [pc EXCEPT ![RequestTask] = "idle"]

\* get_visit_count(page_id) up to its first await: serve a valid cache entry,
\* else drop the expired one and, when the last flush is too old, call
\* flush_buffer before the store is read.
GetVisitCount(page_id, rq) ==
    LET s == HandlerService
        entry == cache[s][page_id]
    IN
    IF CacheValid(entry, now)
    THEN /\ ReadReturn([kind |-> "value", page_id |-> page_id, visits |-> entry[1],
                        served_via |-> "in_memory", call |-> rq.call,
                        first_visits |-> 0, first_via |-> "none",
                        since_first |-> 0, fresh |-> FALSE,
                        due |-> FALSE, catch_up |-> "none",
                        store_error |-> FALSE, prev_read |-> None],
                       [rq EXCEPT !.current_time = now])
         /\ UNCHANGED <<cache, write_buffer, fl, wake, phase, flushed, flush_hist>>
    ELSE /\ cache' = [cache EXCEPT ![s][page_id] = <<>>]
         \* on an empty buffer flush_buffer returns within this step
         /\ req' = [rq EXCEPT
                      !.current_time = now,
                      !.due = now - last_flush_time[s] > flush_interval,
                      !.catch_up = IF /\ FlushDue(now, last_flush_time[s])
                                      /\ Len(write_buffer[s]) = 0
                                   THEN "empty" ELSE "none"]
         /\ ret' = NoRet
         /\ UNCHANGED <<last_read, recording>>
         /\ IF FlushDue(now, last_flush_time[s])
            THEN FlushBuffer(RequestTask)
            ELSE /\ pc' = [pc EXCEPT ![RequestTask] = "get"]
                 /\ flush_ret' = NoFlushRet
                 /\ UNCHANGED <<write_buffer, fl, wake, phase, flushed, flush_hist>>

\* GET /visits/{page_id}
GetVisits(page_id) ==
    /\ phase = "running"
    /\ pc[RequestTask] = "idle"
    /\ LoopFree
    /\ GetVisitCount(page_id, [NoReq EXCEPT !.endpoint = "get_visits",
                                            !.page_id = page_id, !.call = 1,
                                            !.fresh = ~flushed])
    /\ UNCHANGED <<now, redis, last_flush_time, blocking, accepted, redis0, late, svcvars, ringvars>>

\* GET /test-cache/{page_id}: the first get_visit_count call.
TestCache(page_id) ==
    /\ phase = "running"
    /\ pc[RequestTask] = "idle"
    /\ LoopFree
    /\ GetVisitCount(page_id, [NoReq EXCEPT !.endpoint = "test_cache",
                                            !.page_id = page_id, !.call = 1,
                                            !.fresh = ~flushed])
    /\ UNCHANGED <<now, redis, last_flush_time, blocking, accepted, redis0, late, svcvars, ringvars>>

\* test_cache: the second get_visit_count call.
TestCacheSecond ==
    /\ phase = "running"
    /\ pc[RequestTask] = "second"
    /\ GetVisitCount(req.page_id, [req EXCEPT !.call = 2, !.fresh = ~flushed])
    /\ UNCHANGED <<now, redis, last_flush_time, blocking, accepted, redis0, late, svcvars, ringvars>>

\* A failed read answered with 0, as for an absent key.
RedisGetZeroOnError(reply, value) ==
    [raised |-> FALSE, value |-> IF reply = "ok" THEN value ELSE 0]
\* redis_manager.get: the value of the key (0 for an absent key), or the
\* exception raised when the store call fails.
RedisGet(reply, value) ==
    IF reply = "ok" THEN [raised |-> FALSE, value |-> value]
    ELSE [raised |-> TRUE, value |-> 0]

\* await redis_manager.get(redis_key): the value (0 for an absent key), or
\* the store call raises and the exception leaves the handler.
StoreGet ==
    /\ phase = "running"
    /\ pc[RequestTask] = "get"
    /\ \E reply \in {"ok", "error"} :
         LET got == RedisGet(reply, redis[req.page_id]) IN
         IF ~got.raised
         THEN /\ req' = [req EXCEPT !.redis_count = got.value,
                                    !.store_error = (reply = "error")]
              /\ pc' = [pc EXCEPT ![RequestTask] = "got"]
              /\ ret' = NoRet
              /\ flush_ret' = NoFlushRet
              /\ UNCHANGED <<last_read, recording>>
         ELSE ReadReturn([kind |-> "error", page_id |-> req.page_id, visits |-> 0,
                          served_via |-> "none", call |-> req.call,
                          first_visits |-> 0, first_via |-> "none",
                          since_first |-> 0, fresh |-> FALSE,
                          due |-> FALSE, catch_up |-> "none",
                        store_error |-> FALSE, prev_read |-> None],
                         [req EXCEPT !.endpoint = "failed",
                                     !.store_error = (reply = "error")])
    /\ UNCHANGED <<now, redis, cache, write_buffer, last_flush_time, wake, fl, phase,
                   blocking, accepted, redis0, flushed, late, flush_hist, svcvars, ringvars>>

\* The rest of get_visit_count: add the pending count, cache the total with
\* the expiration counted from current_time, return it.
ReadResume ==
    /\ phase = "running"
    /\ pc[RequestTask] = "got"
    /\ LET s == HandlerService
           total_count == TotalCount(req.redis_count, Pending(s, req.page_id))
       IN
       /\ cache' = [cache EXCEPT
                      ![s][req.page_id] = CacheEntry(total_count, req.current_time)]
       /\ ReadReturn([kind |-> "value", page_id |-> req.page_id,
                      visits |-> total_count, served_via |-> "redis",
                      call |-> req.call, first_visits |-> 0, first_via |-> "none",
                      since_first |-> 0, fresh |-> FALSE,
                      due |-> FALSE, catch_up |-> "none",
                        store_error |-> FALSE, prev_read |-> None], req)
    /\ UNCHANGED <<now, redis, write_buffer, last_flush_time, wake, fl, phase,
                   blocking, accepted, redis0, flushed, late, flush_hist, svcvars, ringvars>>

\* ------------------------------------------------------------- shutdown
\* main.py shutdown_event -> visit_counter_service.cleanup(): cancel the
\* singleton's flush task and await it.
ShutdownEvent ==
    /\ phase = "running"
    /\ pc[RequestTask] = "idle"
    /\ pc[ShutdownTask] = "idle"
    /\ LoopFree
    /\ phase' = "shutting_down"
    /\ pc' = [pc EXCEPT ![ShutdownTask] = "join"]
    /\ ret' = NoRet
    /\ flush_ret' = NoFlushRet
    /\ UNCHANGED <<now, redis, cache, write_buffer, last_flush_time, wake, fl, req,
                   blocking, accepted, redis0, flushed, late, flush_hist, svcvars, ringvars,
                   last_read, recording>>

\* _periodic_flush of the cancelled task: CancelledError at asyncio.sleep,
\* break.
TaskCancelled(s) ==
    /\ phase # "exited"
    /\ CancelRequested(s)
    /\ pc[FlushTask(s)] = "sleep"
    /\ LoopFree
    /\ pc' = [pc EXCEPT ![FlushTask(s)] = "done"]
    /\ ret' = NoRet
    /\ flush_ret' = NoFlushRet
    /\ UNCHANGED <<now, redis, cache, write_buffer, last_flush_time, wake, fl, req,
                   phase, blocking, accepted, redis0, flushed, late, flush_hist, svcvars, ringvars,
                   last_read, recording>>

\* cleanup after "await self.flush_task": the final flush_buffer call of the
\* instance cleanup was called on.
CleanupFlush ==
    /\ phase = "shutting_down"
    /\ pc[ShutdownTask] = "join"
    /\ pc[FlushTask(ShutdownTask[2])] = "done"
    /\ LoopFree
    /\ FlushBuffer(ShutdownTask)
    /\ ret' = NoRet
    /\ UNCHANGED <<now, redis, cache, last_flush_time, req, blocking, accepted,
                   redis0, late, svcvars, ringvars,
                   last_read, recording>>

\* --------------------------------------------------------- CacheService
mainvars == <<redis, cache, write_buffer, last_flush_time, pc, wake, fl, req, ret,
              flush_ret, phase, blocking, accepted, redis0, flushed, late,
              flush_hist, last_read, recording>>

\* CacheService.get: the entry has expired when time.time() > expiration.
Expired(entry, t) == t > entry[2]

\* CacheService.set(key, value)
CacheSet(key, value) ==
    /\ svc_cache' = [svc_cache EXCEPT ![key] = <<value, now + ttl_seconds>>]
    /\ svc_out' = NoOut
    /\ UNCHANGED <<now, mainvars, ringvars>>

\* CacheService.get(key)
CacheGet(key) ==
    LET entry == svc_cache[key] IN
    /\ IF entry = <<>>
       THEN /\ svc_cache' = svc_cache
            /\ svc_out' = [kind |-> "get", key |-> key, at |-> now, entry |-> entry,
                           value |-> None, hit |-> FALSE, removed |-> TRUE]
       ELSE IF Expired(entry, now)
       THEN /\ svc_cache' = [svc_cache EXCEPT ![key] = <<>>]
            /\ svc_out' = [kind |-> "get", key |-> key, at |-> now, entry |-> entry,
                           value |-> None, hit |-> FALSE, removed |-> TRUE]
       ELSE /\ svc_cache' = svc_cache
            /\ svc_out' = [kind |-> "get", key |-> key, at |-> now, entry |-> entry,
                           value |-> entry[1], hit |-> TRUE, removed |-> FALSE]
    /\ UNCHANGED <<now, mainvars, ringvars>>

\* CacheService.invalidate(key)
CacheInvalidate(key) ==
    /\ svc_cache' = [svc_cache EXCEPT ![key] = <<>>]
    /\ svc_out' = NoOut
    /\ UNCHANGED <<now, mainvars, ringvars>>

\* CacheService.clear()
CacheClear ==
    /\ svc_cache' = [k \in Keys |-> <<>>]
    /\ svc_out' = NoOut
    /\ UNCHANGED <<now, mainvars, ringvars>>

NextCache ==
    \/ Tick
    \/ \E k \in Keys, v \in 0..MaxInit : CacheSet(k, v)
    \/ \E k \in Keys : CacheGet(k)
    \/ \E k \in Keys : CacheInvalidate(k)
    \/ CacheClear

SpecCache == Init /\ [][NextCache]_vars

\* ------------------------------------------------------- ConsistentHash
\* list.sort(): insertion of x into an ascending list, and the sort built on it.
RECURSIVE ListInsert(_, _)
ListInsert(a, x) ==
    IF a = <<>> THEN <<x>>
    ELSE IF x <= Head(a) THEN <<x>> \o a
    ELSE <<Head(a)>> \o ListInsert(Tail(a), x)

RECURSIVE ListSorted(_)
ListSorted(a) == IF a = <<>> THEN <<>> ELSE ListInsert(ListSorted(Tail(a)), Head(a))

\* add_node without its final sort.
ListSortSkipped(a) == a
\* self.sorted_keys.sort()
ListSort(a) == ListSorted(a)

\* list.remove(x): the first occurrence of x is taken out.
RECURSIVE ListRemove(_, _)
ListRemove(a, x) ==
    IF a = <<>> THEN <<>>
    ELSE IF Head(a) = x THEN Tail(a)
    ELSE <<Head(a)>> \o ListRemove(Tail(a), x)

\* The loop of remove_node over keys_to_remove (the hash values are distinct
\* dict keys, so the order of the loop does not change the outcome).
RECURSIVE ListRemoveEach(_, _)
ListRemoveEach(a, hs) ==
    IF hs = {} THEN a
    ELSE LET h == CHOOSE x \in hs : \A y \in hs : x <= y IN
         ListRemoveEach(ListRemove(a, h), hs \ {h})

\* bisect.bisect(a, x) = bisect_right: binary search, lo and hi 0-based.
RECURSIVE BisectFrom(_, _, _, _)
BisectFrom(a, x, lo, hi) ==
    IF lo < hi
    THEN LET mid == (lo + hi) \div 2 IN
         IF x < a[mid + 1] THEN BisectFrom(a, x, lo, mid)
         ELSE BisectFrom(a, x, mid + 1, hi)
    ELSE lo

Bisect(a, x) == BisectFrom(a, x, 0, Len(a))

\* The hash values of the virtual nodes node:0 .. node:(virtual_nodes - 1),
\* in the order add_node computes them.
NodeHashes(node) == [i \in 1..virtual_nodes |-> vnode_hash[<<node, i - 1>>]]

\* mapped_node == node for some entry of hash_ring
NodePresent(ring, node) == \E h \in HashSpace : ring[h] = node

\* self.hash_ring[hash_value] = node, for every hash value of the loop
RingAssign(ring, hashes, node) ==
    [h \in HashSpace |->
        IF \E i \in 1..Len(hashes) : hashes[i] = h THEN node ELSE ring[h]]

\* keys_to_remove of remove_node
KeysToRemove(ring, node) == {h \in HashSpace : ring[h] = node}

\* del self.hash_ring[hash_value], for every hash value of keys_to_remove
RingDelete(ring, hs) == [h \in HashSpace |-> IF h \in hs THEN NoNode ELSE ring[h]]

\* get_node on a key whose hash value is h: the node returned, "Exception"
\* when hash_ring is empty, "KeyError" when the hash value found in
\* sorted_keys is not a key of hash_ring.
Locate(ring, keys, h) ==
    IF \A x \in HashSpace : ring[x] = NoNode THEN "Exception"
    ELSE LET index == Bisect(keys, h) % Len(keys)
             found == ring[keys[index + 1]]
         IN IF found = NoNode THEN "KeyError" ELSE found

\* get_node for every hash value
Assignment(ring, keys) == [h \in HashSpace |-> Locate(ring, keys, h)]

\* ConsistentHash.add_node(node)
AddNode(node) ==
    /\ Len(sorted_keys) + virtual_nodes <= MaxRing
    /\ hash_ring' = RingAssign(hash_ring, NodeHashes(node), node)
    /\ sorted_keys' = ListSort(sorted_keys \o NodeHashes(node))
    /\ ring_out' = [NoRingOut EXCEPT !.op = "add_node", !.node = node,
                                     !.present = NodePresent(hash_ring, node)]
    /\ UNCHANGED <<now, mainvars, svcvars, vnode_hash>>

\* ConsistentHash.remove_node(node)
RemoveNode(node) ==
    LET keys_to_remove == KeysToRemove(hash_ring, node) IN
    /\ hash_ring' = RingDelete(hash_ring, keys_to_remove)
    /\ sorted_keys' = ListRemoveEach(sorted_keys, keys_to_remove)
    /\ ring_out' = [NoRingOut EXCEPT !.op = "remove_node", !.node = node,
                                     !.present = NodePresent(hash_ring, node),
                                     !.before = Assignment(hash_ring, sorted_keys)]
    /\ UNCHANGED <<now, mainvars, svcvars, vnode_hash>>

\* ConsistentHash.get_node(key), h the hash value of key
GetNode(h) ==
    /\ ring_out' = [NoRingOut EXCEPT !.op = "get_node", !.hash = h,
                                     !.result = Locate(hash_ring, sorted_keys, h)]
    /\ UNCHANGED <<now, mainvars, svcvars, vnode_hash, hash_ring, sorted_keys>>

\* ConsistentHash([]): an empty ring, the nodes then added one by one as the
\* constructor does; any hash values of the virtual node names.  add_node
\* sorts, and which of a node's virtual nodes has which hash value changes
\* neither hash_ring nor sorted_keys, so a node's hash values are taken in
\* ascending order of i.
InitRing ==
    /\ InitWith([k \in Keys |-> 0])
    /\ blocking = SyncClient
    /\ recording = FALSE
    /\ vnode_hash \in [VirtualNodes -> HashSpace]
    /\ \A node \in Nodes : \A i \in 1..(virtual_nodes - 1) :
          vnode_hash[<<node, i - 1>>] <= vnode_hash[<<node, i>>]

NextRing ==
    \/ \E node \in Nodes : AddNode(node)
    \/ \E node \in Nodes : RemoveNode(node)
    \/ \E h \in HashSpace : GetNode(h)

SpecRing == InitRing /\ [][NextRing]_vars

\* -------------------------------------------------------------- service
Next ==
    \/ Tick
    \/ \E k \in Keys : IncrementVisit(k)
    \/ \E k \in Keys : GetVisits(k)
    \/ \E k \in Keys : TestCache(k)
    \/ TestCacheSecond
    \/ StoreGet
    \/ ReadResume
    \/ \E s \in Services : PeriodicFlush(s)
    \/ \E t \in Tasks : FlushStore(t)
    \/ \E t \in Tasks : FlushResume(t)
    \/ ShutdownEvent
    \/ \E s \in Services : TaskCancelled(s)
    \/ CleanupFlush

Spec == Init /\ [][Next]_vars

\* The service with every await on the store a suspension point: requests,
\* the flush task of the service that takes the requests and the flushes
\* interleave at the awaits.  The other instance's buffer stays empty, its
\* flush task finds nothing to write and is left out.
NextYield ==
    \/ Tick
    \/ \E k \in Keys : IncrementVisit(k)
    \/ \E k \in Keys : GetVisits(k)
    \/ StoreGet
    \/ ReadResume
    \/ PeriodicFlush(HandlerService)
    \/ \E t \in Tasks : FlushStore(t)
    \/ \E t \in Tasks : FlushResume(t)

SpecYield == InitYield /\ [][NextYield]_vars

\* The service in operation (increments, reads, periodic and catch-up
\* flushes, store replies of both kinds) with the blocking store client.
NextReads ==
    \/ Tick
    \/ \E k \in Keys : IncrementVisit(k)
    \/ \E k \in Keys : GetVisits(k)
    \/ StoreGet
    \/ ReadResume
    \/ \E s \in Services : PeriodicFlush(s)
    \/ \E t \in Tasks : FlushStore(t)
    \/ \E t \in Tasks : FlushResume(t)

SpecReads == InitReads /\ [][NextReads]_vars

\* ------------------------------------------------- the service for ever
\* Time without a last instant.  The program compares time stamps only with
\* the current time, so the clock is read from the current instant: `now`
\* stays where it is and ClockStep seconds passing move every time stamp
\* ClockStep into the past.  A time stamp older than `oldest`, from where on
\* every comparison the program makes has the same outcome, is kept there.
Past(t, oldest) == IF t - ClockStep < oldest THEN oldest ELSE t - ClockStep

TickLive ==
    /\ now' = now
    /\ last_flush_time' =
          [s \in Services |->
              Past(last_flush_time[s], now - flush_interval - ClockStep)]
    /\ wake' = [s \in Services |->
                  IF wake[s] = Never THEN Never ELSE Past(wake[s], now)]
    /\ cache' = [s \in Services |-> [k \in Keys |->
                  IF cache[s][k] = <<>> THEN <<>>
                  ELSE <<cache[s][k][1], Past(cache[s][k][2], now)>>]]
    /\ req' = IF req.endpoint = "none" THEN req
              ELSE [req EXCEPT !.current_time = Past(@, now - cache_ttl)]
    /\ ret' = NoRet
    /\ flush_ret' = NoFlushRet
    /\ UNCHANGED <<redis, write_buffer, pc, fl, phase, blocking, accepted, redis0,
                   flushed, late, flush_hist, svcvars, ringvars, last_read,
                   recording>>

\* The instance the handlers use, in operation: its requests, its flush task
\* and the store's replies.  (The other instance never has anything to flush.)
NextLive ==
    \/ TickLive
    \/ \E k \in Keys : IncrementVisit(k)
    \/ \E k \in Keys : GetVisits(k)
    \/ StoreGet
    \/ ReadResume
    \/ PeriodicFlush(HandlerService)
    \/ \E t \in Tasks : FlushStore(t)
    \/ \E t \in Tasks : FlushResume(t)

\* Time passes, and the event loop runs every coroutine that can go on: a
\* flush task whose sleep is over, a store call that returns, the code
\* after it.
Fairness ==
    /\ WF_vars(TickLive)
    /\ WF_vars(PeriodicFlush(HandlerService))
    /\ \A t \in Tasks : WF_vars(FlushStore(t)) /\ WF_vars(FlushResume(t))
    /\ WF_vars(StoreGet)
    /\ WF_vars(ReadResume)

\* Start-up on an empty store.
InitLive ==
    /\ InitWith([k \in Keys |-> 0])
    /\ blocking = SyncClient
    /\ vnode_hash = [v \in VirtualNodes |-> 0]
    /\ recording = FALSE

SpecLive == InitLive /\ [][NextLive]_vars /\ Fairness

\* ======================================================== properties
\* Counts of page k that a flush of counter_service has taken out of the
\* pending map and neither added to the store nor put back.
RECURSIVE SumCounts(_, _)
SumCounts(items, k) ==
    IF items = <<>> THEN 0
    ELSE (IF Head(items)[1] = k THEN Head(items)[2] ELSE 0) + SumCounts(Tail(items), k)

InFlightOf(t, k) ==
    IF fl[t].stage = "none" \/ t[2] # HandlerService THEN 0
    ELSE IF fl[t].stage = "ret" /\ fl[t].reply # "error"
    THEN SumCounts(Tail(fl[t].buffer_copy), k)
    ELSE SumCounts(fl[t].buffer_copy, k)

InFlightCount(k) ==
    InFlightOf(RequestTask, k) + InFlightOf(FlushTask(HandlerService), k)

NoFlushInFlight == \A t \in Tasks : fl[t].stage = "none"

\* C1: from start-up (store value v = redis0[K], nothing pending, nothing
\* cached), a get_visit_count(K) call made after n increments of K and before
\* any flush has taken a snapshot returns exactly v + n, whether it is served
\* from the store or from the cache and also when the call itself runs the
\* catch-up flush.
C1_ReadAfterIncrements ==
    (ret.kind = "value" /\ ret.fresh)
        => ret.visits = redis0[ret.page_id] + accepted[ret.page_id]

C1_Witness ==
    /\ ret.kind = "value" /\ ret.fresh /\ ret.page_id = "A"
    /\ ret.served_via = "redis"
    /\ redis0["A"] > 0 /\ accepted["A"] = MaxIncr
    /\ ret.visits = redis0["A"] + MaxIncr

\* C2: for every key, the store value plus the pending count plus what a
\* running flush holds (taken out of the pending map, not yet added or put
\* back) equals the initial store value plus the accepted increments; between
\* operations nothing is held, so store + pending = initial + accepted after
\* any sequence of increments, failed flushes and successful flushes.
C2_NoLossNoDoubleCount ==
    \A k \in Keys :
        /\ redis[k] + Pending(HandlerService, k) + InFlightCount(k)
              = redis0[k] + accepted[k]
        /\ NoFlushInFlight
              => redis[k] + Pending(HandlerService, k) = redis0[k] + accepted[k]

\* A flush that follows a failed flush and an increment accepted after it
\* has succeeded and delivered both to the store.
C2_Witness ==
    /\ flush_ret.kind = "done" /\ ~flush_ret.failed /\ flush_ret.adds > 0
    /\ flush_ret.prev.last = "failed" /\ flush_ret.prev.inc
    /\ accepted["A"] = 2
    /\ redis["A"] = redis0["A"] + 2
    /\ Pending(HandlerService, "A") = 0

\* C3: an increment of K accepted after a flush of counter_service took its
\* snapshot and before that flush ended is not swallowed: it stays counted
\* in the pending map, in the store or in a snapshot still being written,
\* and once no flush is running store + pending holds every accepted
\* increment of K, whether the store adds succeeded or failed.
C3_LateIncrementKept ==
    \A k \in late :
        /\ redis[k] + Pending(HandlerService, k) + InFlightCount(k)
              = redis0[k] + accepted[k]
        /\ NoFlushInFlight
              => redis[k] + Pending(HandlerService, k) = redis0[k] + accepted[k]

\* The flush has ended with its store add failed; the count it put back and
\* the increment accepted meanwhile are both pending.
C3_Witness ==
    /\ late = {"A"}
    /\ NoFlushInFlight
    /\ flush_ret.kind = "done" /\ flush_ret.failed
    /\ accepted["A"] = 2
    /\ Pending(HandlerService, "A") = 2

\* C4: once the process has exited after a clean shutdown, no increment
\* accepted by the instance the handlers use is left unflushed: nothing is
\* pending on it and every accepted increment is in the store.
C4_ShutdownDrains ==
    phase = "exited"
        => \A k \in Keys :
             /\ Pending(HandlerService, k) = 0
             /\ redis[k] = redis0[k] + accepted[k]

\* C5: every value get_visit_count returns, from the cache or from the
\* store, is store + pending of its page at the return.
C5_ReadIsCurrent ==
    ret.kind = "value"
        => ret.visits = redis[ret.page_id] + Pending(HandlerService, ret.page_id)

\* A cache hit after a failed flush, with increments still pending.
C5_Witness ==
    /\ ret.kind = "value" /\ ret.served_via = "in_memory"
    /\ flush_hist[HandlerService].last = "failed"
    /\ Pending(HandlerService, ret.page_id) > 0

\* C6: a step that accepts an increment of K adds one to the pending count
\* of K, removes the cache entry of K and changes nothing else: not the
\* store, not another key's pending count or cache entry, not
\* last_flush_time, not the other instance, and it starts no flush.
C6_IncrementFrame ==
    [][\A k \in Keys :
         accepted'[k] = accepted[k] + 1
            => /\ Pending(HandlerService, k)' = Pending(HandlerService, k) + 1
               /\ cache'[HandlerService][k] = <<>>
               /\ redis' = redis
               /\ \A j \in Keys \ {k} :
                    /\ Pending(HandlerService, j)' = Pending(HandlerService, j)
                    /\ cache'[HandlerService][j] = cache[HandlerService][j]
               /\ last_flush_time' = last_flush_time
               /\ write_buffer'[SingletonService] = write_buffer[SingletonService]
               /\ cache'[SingletonService] = cache[SingletonService]
               /\ fl' = fl
      ]_vars

\* A was incremented while B had a pending count and a cache entry; the
\* store still holds its start-up values.
C6_Witness ==
    /\ write_buffer[HandlerService] = <<<<"B", 1>>, <<"A", 1>>>>
    /\ cache[HandlerService]["B"] # <<>>
    /\ cache[HandlerService]["A"] = <<>>
    /\ redis = redis0 /\ redis["A"] > 0
    /\ ~flushed

\* C7 as claimed: a flush_buffer call that follows a flush_buffer call of the
\* same instance, with no increment accepted between them, issues no store
\* add.
C7_Original ==
    (flush_ret.kind = "done" /\ flush_ret.prev.last # "none" /\ ~flush_ret.prev.inc)
        => flush_ret.adds = 0

\* C7 amended: a flush_buffer call that follows a flush_buffer call of the
\* same instance in which no store add failed, with no increment accepted
\* between them, returns at once: no store add, store and pending map
\* unchanged.
C7_SecondFlushAfterSuccess ==
    [][(flush_ret'.kind = "done" /\ flush_ret'.prev.last = "ok"
          /\ ~flush_ret'.prev.inc)
         => /\ flush_ret'.adds = 0
            /\ redis' = redis
            /\ write_buffer' = write_buffer
            /\ fl' = fl
      ]_vars

\* The second of two flushes of counter_service, the first of which
\* delivered the pending increments.
C7_Witness ==
    /\ flush_ret.kind = "done"
    /\ flush_ret.task[2] = HandlerService
    /\ flush_ret.prev.last = "ok" /\ ~flush_ret.prev.inc
    /\ flush_ret.adds = 0
    /\ accepted["A"] > 0
    /\ redis["A"] = redis0["A"] + accepted["A"]

\* C8: at most one flush_buffer call is between its snapshot and its end.
C8_OneFlushAtATime == Cardinality({t \in Tasks : fl[t].stage # "none"}) <= 1

\* The catch-up flush of a read is running while the sleep of the same
\* instance's flush task is over.
C8_Witness ==
    /\ fl[RequestTask].stage # "none"
    /\ pc[FlushTask(HandlerService)] = "sleep"
    /\ now >= wake[HandlerService]

C10_HitIffBeforeExpiry ==
    svc_out.kind = "get"
        => /\ svc_out.hit <=> (svc_out.entry # <<>> /\ svc_out.at < svc_out.entry[2])
           /\ (svc_out.entry # <<>> /\ ~(svc_out.at < svc_out.entry[2]))
                 => svc_out.removed

\* ------------------------------------------------ reads and the store
\* C14: when the store read of get_visit_count fails, the call ends with an
\* error and no value (0 is the value of an absent key), writes no cache
\* entry for the page and leaves the pending counts as they were.
C14_ReadFailurePropagates ==
    [][ret'.store_error
          => /\ ret'.kind = "error"
             /\ cache'[HandlerService][ret'.page_id] = <<>>
             /\ write_buffer' = write_buffer]_vars

\* The store read for a page with pending visits and nothing in the store
\* has failed.
C14_Witness ==
    /\ ret.store_error /\ ret.kind = "error"
    /\ Pending(HandlerService, ret.page_id) > 0
    /\ redis[ret.page_id] = 0

\* C15: a read that is not served from the cache and finds
\* current_time - last_flush_time > flush_interval has run flush_buffer to
\* its end before it returns: no increment has been accepted since that
\* flush, and unless a store add of it failed nothing is pending and the
\* store holds every accepted increment.
C15_CatchUpFlushOnRead ==
    (ret.kind \in {"value", "error"} /\ ret.served_via # "in_memory" /\ ret.due)
        => /\ ret.catch_up # "none"
           /\ flush_hist[HandlerService].last \in {"ok", "failed"}
           /\ ~flush_hist[HandlerService].inc
           /\ flush_hist[HandlerService].last = "ok"
                 => \A k \in Keys :
                       /\ Pending(HandlerService, k) = 0
                       /\ redis[k] = redis0[k] + accepted[k]

\* A read more than flush_interval after the last flush has pushed the
\* pending visits of its page to the store and returned them.
C15_Witness ==
    /\ ret.kind = "value" /\ ret.served_via = "redis"
    /\ ret.due /\ ret.catch_up = "flushed"
    /\ accepted[ret.page_id] > 0
    /\ redis[ret.page_id] = redis0[ret.page_id] + accepted[ret.page_id]
    /\ ret.visits = redis[ret.page_id]

\* ------------------------------------------------- the flush, item by item
\* C16: flush_buffer copies the buffer and leaves it empty; each store call
\* adds the item's snapshot count to the item's key or fails; and when the
\* flush returns it has issued, in snapshot order, exactly one store add of
\* the snapshot count for every key with a count > 0 and none besides,
\* whichever of them failed.
C16_FlushIssuesSnapshot ==
    [][/\ \A t \in Tasks :
            (fl[t].stage = "none" /\ fl'[t].stage = "call")
                => /\ fl'[t].snapshot = write_buffer[t[2]]
                   /\ fl'[t].buffer_copy = write_buffer[t[2]]
                   /\ write_buffer'[t[2]] = <<>>
       /\ \A t \in Tasks :
            (fl[t].stage = "call" /\ fl'[t].stage = "ret")
                => LET item == Head(fl[t].buffer_copy) IN
                   \/ redis' = redis
                   \/ redis' = [redis EXCEPT ![item[1]] = @ + item[2]]
       /\ flush_ret'.kind = "done"
            => [i \in 1..Len(flush_ret'.issued) |->
                    <<flush_ret'.issued[i][1], flush_ret'.issued[i][2]>>]
                 = SelectSeq(flush_ret'.snapshot, LAMBDA item : item[2] > 0)]_vars

\* A flush of two keys has returned: the add for the first failed, the add
\* for the second was made and succeeded.
C16_Witness ==
    /\ flush_ret.kind = "done"
    /\ Len(flush_ret.snapshot) = 2 /\ Len(flush_ret.issued) = 2
    /\ flush_ret.issued[1][3] = "error"
    /\ flush_ret.issued[2][3] = "ok"

\* ------------------------------------------------------ monotonic reads
\* C20: the visits returned by a get_visit_count call for a page are never
\* less than the visits returned by the call before it for the same page.
C20_MonotonicReads ==
    (ret.kind = "value" /\ ret.prev_read # None) => ret.visits >= ret.prev_read

\* A read has returned more than the read before it for the same page,
\* from the store, after a flush one of whose store adds failed.
C20_Witness ==
    /\ ret.kind = "value" /\ ret.served_via = "redis"
    /\ ret.prev_read # None /\ ret.visits > ret.prev_read
    /\ flush_hist[HandlerService].last = "failed"

\* ------------------------------------------------------------ liveness
\* No store add is failing.
NoAddFailing == \A t \in Tasks : ~(fl[t].stage = "ret" /\ fl[t].reply = "error")

\* C17: with the flush task running, if from some point on no store add
\* fails (and no increment arrives: at most MaxIncr are accepted), then from
\* some point on nothing is pending for any page and the store holds every
\* accepted increment of it, whatever flushes failed before.
C17_EventuallyFlushed ==
    (<>[]NoAddFailing)
        => <>[](\A k \in Keys :
                   /\ Pending(HandlerService, k) = 0
                   /\ redis[k] = redis0[k] + accepted[k])

\* A flush has failed and the flush after it has put everything into the
\* store.
C17_Witness ==
    /\ flush_ret.kind = "done" /\ ~flush_ret.failed
    /\ flush_ret.task = FlushTask(HandlerService)
    /\ flush_ret.prev.last = "failed"
    /\ \A k \in Keys : Pending(HandlerService, k) = 0
    /\ \E k \in Keys : accepted[k] > 0
    /\ \A k \in Keys : redis[k] = redis0[k] + accepted[k]

\* ------------------------------------------------------ the hash ring
\* The shard a key with hash value h is assigned to, NoNode when get_node
\* raises instead of returning one.
ShardOf(ring, keys, h) ==
    IF Locate(ring, keys, h) \in Nodes THEN Locate(ring, keys, h) ELSE NoNode

\* The entries of the ring (positions of sorted_keys) that belong to node.
EntriesOf(ring, keys, node) == {i \in 1..Len(keys) : ring[keys[i]] = node}

\* No two virtual node names have the same hash value.
NoCollision ==
    \A v, w \in VirtualNodes : v # w => vnode_hash[v] # vnode_hash[w]

\* C11: on a non-empty ring get_node returns the shard of the first entry,
\* in ascending order, whose hash is >= the key's hash (an entry with the
\* key's own hash owns the key), and the shard of the first entry when there
\* is no such entry.  Stated for virtual nodes with distinct hash values.
C11_LocateSuccessor ==
    (/\ NoCollision
     /\ ring_out.op = "get_node" /\ \E node \in Nodes : NodePresent(hash_ring, node))
        => LET geq == {i \in 1..Len(sorted_keys) : sorted_keys[i] >= ring_out.hash}
               first == IF geq = {} THEN 1
                        ELSE CHOOSE i \in geq : \A j \in geq : i <= j
           IN ring_out.result = hash_ring[sorted_keys[first]]

\* C12: remove_node(S) of a shard in the ring, followed by add_node(S), gives
\* every key the shard it had before the removal.
C12_RemoveAddRestores ==
    [][(/\ ring_out.op = "remove_node" /\ ring_out.present
        /\ ring_out'.op = "add_node" /\ ring_out'.node = ring_out.node)
          => Assignment(hash_ring', sorted_keys') = ring_out.before]_vars

\* C13: sorted_keys is sorted and every shard in the ring owns exactly
\* virtual_nodes entries of it, whatever add_node and remove_node calls
\* were made.  Stated for virtual nodes with distinct hash values.
C13_SortedAndVPerShard ==
    NoCollision =>
    /\ \A i \in 1..(Len(sorted_keys) - 1) : sorted_keys[i] <= sorted_keys[i + 1]
    /\ \A node \in Nodes :
          NodePresent(hash_ring, node)
              => Cardinality(EntriesOf(hash_ring, sorted_keys, node)) = virtual_nodes

\* C18: with at least one shard in the ring, get_node returns a shard that is
\* in the ring, and sorted_keys and hash_ring hold the same hash values.
\* Stated for virtual nodes with distinct hash values.
C18_LocateRegistered ==
    (/\ NoCollision
     /\ ring_out.op = "get_node" /\ \E node \in Nodes : NodePresent(hash_ring, node))
        => /\ ring_out.result \in Nodes
           /\ NodePresent(hash_ring, ring_out.result)
           /\ {sorted_keys[i] : i \in 1..Len(sorted_keys)}
                 = {h \in HashSpace : hash_ring[h] # NoNode}

====
